---------------------------- MODULE Spec2Model ----------------------------
(***************************************************************************)
(* Model of src/src/layout/layoutUtils.ts (graph-layout preprocessing) and *)
(* of its calls from src/src/graph/Graph.tsx.                              *)
(*                                                                         *)
(* A JavaScript string is the sequence of its UTF-16 code units, so that   *)
(* the default Array.prototype.sort order and the template-literal keys of *)
(* removeRepeatedEdges are computed, not assumed.  A Set<string> is the    *)
(* sequence of its members in insertion order; a plain object used as a    *)
(* map is the sequence of its own keys in insertion order with a parallel  *)
(* sequence of values.  Ids are strings that are not names of              *)
(* Object.prototype members (a lookup of such a key in a plain object      *)
(* resolves to the inherited member; that is outside this model).          *)
(***************************************************************************)
EXTENDS Integers, Sequences, FiniteSets, TLC

VARIABLES nodes, links, directed, startNode, done,
          edgeMap, derivedStart, extraNodes, components, dedupedLinks

vars == <<nodes, links, directed, startNode, done,
          edgeMap, derivedStart, extraNodes, components, dedupedLinks>>

---------------------------------------------------------------------------
(* Bounds of the model                                                     *)

MaxAdjLinks == 2
MaxAdjNodes == 3
MaxCompLinks == 2
MaxDedupeLinks == 3

---------------------------------------------------------------------------
(* Strings                                                                 *)

\* ""
strEmpty == << >>
\* "A", "B", "C", "AB"
strA == <<65>>
strB == <<66>>
strC == <<67>>
strAB == <<65, 66>>
\* the text "-linkTo-" of the template literals of removeRepeatedEdges
linkTo == <<45, 108, 105, 110, 107, 84, 111, 45>>
\* "A-linkTo-A"
strALinkToA == strA \o linkTo \o strA

\* The value undefined where a string is expected (no string holds the
\* code unit -1).
undefinedString == <<-1>>
\* The value undefined where a node object is expected.
undefinedNode == [undefined |-> TRUE]

\* a < b in the order of the default sort: code unit by code unit, a proper
\* prefix first.
RECURSIVE strLess(_, _)
strLess(a, b) ==
  IF Len(b) = 0 THEN FALSE
  ELSE IF Len(a) = 0 THEN TRUE
  ELSE IF Head(a) # Head(b) THEN Head(a) < Head(b)
  ELSE strLess(Tail(a), Tail(b))

\* arr with x inserted before the first element greater than x.
RECURSIVE sortInsert(_, _)
sortInsert(arr, x) ==
  IF arr = << >> THEN <<x>>
  ELSE IF strLess(x, Head(arr)) THEN <<x>> \o arr
  ELSE <<Head(arr)>> \o sortInsert(Tail(arr), x)

\* arr in ascending order of strLess
RECURSIVE sortStrings(_)
sortStrings(arr) ==
  IF arr = << >> THEN << >>
  ELSE sortInsert(sortStrings(Tail(arr)), Head(arr))

\* A sort that was left out: the array as it was.
sort_missing(arr) == arr

\* arr.sort() on an array of strings
sort(arr) == sortStrings(arr)

\* arr[0]
first(arr) == IF arr = << >> THEN undefinedString ELSE arr[1]

---------------------------------------------------------------------------
(* Set<string> and plain objects                                           *)

Range(s) == {s[i] : i \in 1..Len(s)}

\* set.has(x)
setHas(s, x) == \E i \in 1..Len(s) : s[i] = x

\* set.add(x)
setAdd(s, x) == IF setHas(s, x) THEN s ELSE Append(s, x)

\* {}
emptyObject == [keys |-> << >>, vals |-> << >>]

\* whether obj[k] is an own property
objHas(obj, k) == setHas(obj.keys, k)

\* obj[k] for an own property k
objGet(obj, k) ==
  obj.vals[CHOOSE i \in 1..Len(obj.keys) : obj.keys[i] = k]

\* obj[k] = v
objSet(obj, k, v) ==
  IF objHas(obj, k)
  THEN [obj EXCEPT !.vals[CHOOSE i \in 1..Len(obj.keys) : obj.keys[i] = k] = v]
  ELSE [keys |-> Append(obj.keys, k), vals |-> Append(obj.vals, v)]

---------------------------------------------------------------------------
(* convertToEdgeMap                                                        *)

\* if (!edgeMap[a]) edgeMap[a] = new Set(); edgeMap[a].add(b);
addNeighbour(map, a, b) ==
  LET m1 == IF objHas(map, a) THEN map ELSE objSet(map, a, << >>)
  IN  objSet(m1, a, setAdd(objGet(m1, a), b))

\* A loop body that records both directions whatever directed says.
convertLink_bothWays(map, link, isDirected) ==
  addNeighbour(addNeighbour(map, link.source, link.target),
               link.target, link.source)

\* The body of the loop over links.
convertLink(map, link, isDirected) ==
  IF isDirected
  THEN addNeighbour(map, link.source, link.target)
  ELSE addNeighbour(addNeighbour(map, link.source, link.target),
                    link.target, link.source)

RECURSIVE convertLinks(_, _, _)
convertLinks(map, ls, isDirected) ==
  IF ls = << >> THEN map
  ELSE convertLinks(convertLink(map, Head(ls), isDirected), Tail(ls), isDirected)

\* Array.from(set): the members in insertion order
arrayFrom(s) == s

convertToEdgeMap(ls, isDirected) ==
  LET m == convertLinks(emptyObject, ls, isDirected)
  IN  IF ~isDirected
      THEN [keys |-> m.keys,
            vals |-> [i \in 1..Len(m.vals) |-> arrayFrom(m.vals[i])]]
      ELSE m

---------------------------------------------------------------------------
(* deriveStartNode                                                         *)

\* the ids of a node list, in order (currentNodeList)
RECURSIVE nodeIdList(_)
nodeIdList(ns) ==
  IF ns = << >> THEN << >> ELSE <<Head(ns).id>> \o nodeIdList(Tail(ns))

\* a Set<string> filled from an array
RECURSIVE setFrom(_, _)
setFrom(s, arr) ==
  IF arr = << >> THEN s ELSE setFrom(setAdd(s, Head(arr)), Tail(arr))

\* The loop over Object.keys(edgeMap): st = [withIn, withOut].
RECURSIVE degreeLoop(_, _, _, _)
degreeLoop(keys, map, currentNodes, st) ==
  IF keys = << >> THEN st
  ELSE LET src == Head(keys)
           st1 == IF setHas(currentNodes, src)
                  THEN [withOut |-> setAdd(st.withOut, src),
                        withIn |-> setFrom(st.withIn, objGet(map, src))]
                  ELSE st
       IN  degreeLoop(Tail(keys), map, currentNodes, st1)

\* The loop that collects the candidates.
RECURSIVE candidateLoop(_, _, _)
candidateLoop(ns, st, candidates) ==
  IF ns = << >> THEN candidates
  ELSE candidateLoop(Tail(ns), st,
         IF ~setHas(st.withIn, Head(ns).id) /\ setHas(st.withOut, Head(ns).id)
         THEN setAdd(candidates, Head(ns).id)
         ELSE candidates)

deriveStartNode(ns, map) ==
  LET currentNodeList == nodeIdList(ns)
      currentNodes == setFrom(<< >>, currentNodeList)
      st == degreeLoop(map.keys, map, currentNodes,
                       [withIn |-> << >>, withOut |-> << >>])
      candidates == candidateLoop(ns, st, << >>)
  IN  IF Len(candidates) > 0 THEN first(sort(arrayFrom(candidates)))
      ELSE IF Len(st.withOut) = 0 THEN first(sort(currentNodeList))
      ELSE first(sort(arrayFrom(st.withOut)))

---------------------------------------------------------------------------
(* getExtraNodes                                                           *)

\* The loop that adds both endpoints of every link to connectedNodeIds.
RECURSIVE touchedIds(_, _)
touchedIds(s, ls) ==
  IF ls = << >> THEN s
  ELSE touchedIds(setAdd(setAdd(s, Head(ls).source), Head(ls).target), Tail(ls))

\* A loop that adds only the source of every link.
RECURSIVE touchedIds_sourcesOnly(_, _)
touchedIds_sourcesOnly(s, ls) ==
  IF ls = << >> THEN s
  ELSE touchedIds_sourcesOnly(setAdd(s, Head(ls).source), Tail(ls))

\* connectedNodeIds filled from the sources alone
extraConnectedIds_sourcesOnly(ls) == touchedIds_sourcesOnly(<< >>, ls)

\* connectedNodeIds of getExtraNodes
extraConnectedIds(ls) == touchedIds(<< >>, ls)

RECURSIVE extraLoop(_, _, _)
extraLoop(ns, connectedNodeIds, rtn) ==
  IF ns = << >> THEN rtn
  ELSE extraLoop(Tail(ns), connectedNodeIds,
         IF ~setHas(connectedNodeIds, Head(ns).id)
         THEN Append(rtn, Head(ns)) ELSE rtn)

getExtraNodes(ns, ls) == extraLoop(ns, extraConnectedIds(ls), << >>)

---------------------------------------------------------------------------
(* dfs and getDisconnectedComponents                                       *)

\* st = [seen, collected], the two sets dfs mutates
RECURSIVE dfs(_, _, _)
RECURSIVE dfsChildren(_, _, _)
dfs(nodeId, map, st) ==
  IF setHas(st.seen, nodeId) THEN st
  ELSE LET st1 == [seen |-> setAdd(st.seen, nodeId),
                   collected |-> setAdd(st.collected, nodeId)]
       IN  IF ~objHas(map, nodeId) THEN st1
           ELSE dfsChildren(objGet(map, nodeId), map, st1)

dfsChildren(children, map, st) ==
  IF children = << >> THEN st
  ELSE dfsChildren(Tail(children), map, dfs(Head(children), map, st))

\* idToNodes: a later node of the same id replaces an earlier one
RECURSIVE buildIdToNodes(_, _)
buildIdToNodes(obj, ns) ==
  IF ns = << >> THEN obj
  ELSE buildIdToNodes(objSet(obj, Head(ns).id, Head(ns)), Tail(ns))

\* idToNodes[c]
nodeOfId(idToNodes, c) ==
  IF objHas(idToNodes, c) THEN objGet(idToNodes, c) ELSE undefinedNode

\* toAdd: idToNodes[c] for every collected c, in order
toAddOf(idToNodes, collected) ==
  [i \in 1..Len(collected) |-> nodeOfId(idToNodes, collected[i])]

\* the truth value of a string | undefined used as a condition
truthy(s) == s # undefinedString /\ s # strEmpty

\* The undirected edge map getDisconnectedComponents traverses.
componentEdgeMap_directed(ls) == convertToEdgeMap(ls, TRUE)

componentEdgeMap(ls) == convertToEdgeMap(ls, FALSE)

\* The loop over connectedNodeIds: st = [seen, rtn]; an element of rtn is
\* the array toAdd together with the set collected it was built from.
RECURSIVE componentLoop(_, _, _, _, _)
componentLoop(ids, map, idToNodes, start, st) ==
  IF ids = << >> THEN st
  ELSE LET nodeId == Head(ids) IN
       IF setHas(st.seen, nodeId)
       THEN componentLoop(Tail(ids), map, idToNodes, start, st)
       ELSE LET d == dfs(nodeId, map, [seen |-> st.seen, collected |-> << >>])
                comp == [collected |-> d.collected,
                         toAdd |-> toAddOf(idToNodes, arrayFrom(d.collected))]
                rtn1 == IF truthy(start) /\ setHas(d.collected, start)
                        THEN <<comp>> \o st.rtn
                        ELSE Append(st.rtn, comp)
            IN  componentLoop(Tail(ids), map, idToNodes, start,
                              [seen |-> d.seen, rtn |-> rtn1])

\* Ids to traverse from that also hold the id of every node.
componentIds_allNodes(ns, ls) ==
  arrayFrom(setFrom(touchedIds(<< >>, ls), nodeIdList(ns)))

\* Array.from(connectedNodeIds) of getDisconnectedComponents: the ids the
\* links touch, in first-occurrence order; the node list is not consulted.
componentIds(ns, ls) == arrayFrom(touchedIds(<< >>, ls))

\* rtn at the return, each component with its set collected
decomposeRun(ns, ls, start) ==
  componentLoop(componentIds(ns, ls), componentEdgeMap(ls),
                buildIdToNodes(emptyObject, ns), start,
                [seen |-> << >>, rtn |-> << >>]).rtn

getDisconnectedComponents(ns, ls, start) ==
  LET run == decomposeRun(ns, ls, start)
  IN  [i \in 1..Len(run) |-> run[i].toAdd]

---------------------------------------------------------------------------
(* removeRepeatedEdges                                                     *)

\* `${a}-linkTo-${b}`
linkKey(a, b) == a \o linkTo \o b

\* A loop body that also rejects a link whose own key was seen.
dedupeStep_rejectsRepeats(st, link) ==
  IF setHas(st.seen, linkKey(link.target, link.source))
     \/ setHas(st.seen, linkKey(link.source, link.target))
  THEN st
  ELSE [seen |-> setAdd(st.seen, linkKey(link.source, link.target)),
        rtn |-> Append(st.rtn, link)]

\* A loop body whose drop also forgets the mirror's key.
dedupeStep_forgets(st, link) ==
  IF setHas(st.seen, linkKey(link.target, link.source))
  THEN [seen |-> SelectSeq(st.seen,
                   LAMBDA k : k # linkKey(link.target, link.source)),
        rtn |-> st.rtn]
  ELSE [seen |-> setAdd(st.seen, linkKey(link.source, link.target)),
        rtn |-> Append(st.rtn, link)]

\* The body of the loop over links: st = [seen, rtn].
dedupeStep(st, link) ==
  LET key == linkKey(link.source, link.target)
      backKey == linkKey(link.target, link.source)
  IN  IF setHas(st.seen, backKey) THEN st
      ELSE [seen |-> setAdd(st.seen, key), rtn |-> Append(st.rtn, link)]

\* seen and rtn after the first k iterations of the loop
RECURSIVE dedupeAfter(_, _)
dedupeAfter(ls, k) ==
  IF k = 0 THEN [seen |-> << >>, rtn |-> << >>]
  ELSE dedupeStep(dedupeAfter(ls, k - 1), ls[k])

removeRepeatedEdges(ls) == dedupeAfter(ls, Len(ls)).rtn

---------------------------------------------------------------------------
(* Inputs                                                                  *)

\* a node object of the node list
node(id) == [id |-> id, label |-> id]
\* a second node object with the id "A"
nodeA2 == [id |-> strA, label |-> strAB]

link(a, b) == [source |-> a, target |-> b]

Links(ids) == {link(a, b) : a \in ids, b \in ids}

SeqsUpTo(S, n) == UNION {[1..k -> S] : k \in 0..n}

UniqueIds(ns) == \A i, j \in 1..Len(ns) : ns[i].id = ns[j].id => i = j

AdjIds == {strA, strAB, strB, strC}
CompIds == {strEmpty, strA, strB, strC}
DedupeIds == {strA, strB, strALinkToA}

\* Node lists of deriveStartNode: ids are unique within a node list.
AdjNodeLists ==
  {ns \in SeqsUpTo({node(id) : id \in AdjIds}, MaxAdjNodes) : UniqueIds(ns)}

\* Node lists of the component computation: every subset of the ids in one
\* order, and two lists that hold the id "A" twice.
CompNodeUniverse == <<node(strC), node(strEmpty), node(strA), node(strB)>>
CompNodeLists ==
  {SelectSeq(CompNodeUniverse, LAMBDA n : n.id \in S) : S \in SUBSET CompIds}
    \cup {<<node(strA), nodeA2>>, <<nodeA2, node(strB), node(strA)>>}

NoResults ==
  /\ edgeMap = emptyObject
  /\ derivedStart = undefinedString
  /\ extraNodes = << >>
  /\ components = << >>
  /\ dedupedLinks = << >>
  /\ done = {}

---------------------------------------------------------------------------
(* convertToEdgeMap, then deriveStartNode on its result                    *)

InitAdjacency ==
  /\ links \in SeqsUpTo(Links(AdjIds), MaxAdjLinks)
  /\ directed \in BOOLEAN
  /\ nodes = << >>
  /\ startNode = undefinedString
  /\ NoResults

CallConvertToEdgeMap ==
  /\ "convertToEdgeMap" \notin done
  /\ edgeMap' = convertToEdgeMap(links, directed)
  /\ done' = done \cup {"convertToEdgeMap"}
  /\ UNCHANGED <<nodes, links, directed, startNode, derivedStart, extraNodes,
                 components, dedupedLinks>>

CallDeriveStartNode ==
  /\ "convertToEdgeMap" \in done
  /\ "deriveStartNode" \notin done
  /\ \E ns \in AdjNodeLists :
       /\ nodes' = ns
       /\ derivedStart' = deriveStartNode(ns, edgeMap)
  /\ done' = done \cup {"deriveStartNode"}
  /\ UNCHANGED <<links, directed, startNode, edgeMap, extraNodes, components,
                 dedupedLinks>>

NextAdjacency == CallConvertToEdgeMap \/ CallDeriveStartNode

SpecAdjacency == InitAdjacency /\ [][NextAdjacency]_vars

---------------------------------------------------------------------------
(* getExtraNodes, then getDisconnectedComponents, on one node and link     *)
(* list (Graph.tsx places the extra nodes before it performs the layout)   *)

InitComponents ==
  /\ nodes \in CompNodeLists
  /\ links \in SeqsUpTo(Links(CompIds), MaxCompLinks)
  /\ directed = FALSE
  /\ startNode = undefinedString
  /\ NoResults

CallGetExtraNodes ==
  /\ "getExtraNodes" \notin done
  /\ extraNodes' = getExtraNodes(nodes, links)
  /\ done' = done \cup {"getExtraNodes"}
  /\ UNCHANGED <<nodes, links, directed, startNode, edgeMap, derivedStart,
                 components, dedupedLinks>>

CallGetDisconnectedComponents ==
  /\ "getExtraNodes" \in done
  /\ "getDisconnectedComponents" \notin done
  /\ \E start \in CompIds \cup {undefinedString} :
       /\ startNode' = start
       /\ components' = getDisconnectedComponents(nodes, links, start)
  /\ done' = done \cup {"getDisconnectedComponents"}
  /\ UNCHANGED <<nodes, links, directed, edgeMap, derivedStart, extraNodes,
                 dedupedLinks>>

NextComponents == CallGetExtraNodes \/ CallGetDisconnectedComponents

SpecComponents == InitComponents /\ [][NextComponents]_vars

---------------------------------------------------------------------------
(* removeRepeatedEdges                                                     *)

InitDedupe ==
  /\ links \in SeqsUpTo(Links(DedupeIds), MaxDedupeLinks)
  /\ directed = FALSE
  /\ nodes = << >>
  /\ startNode = undefinedString
  /\ NoResults

CallRemoveRepeatedEdges ==
  /\ "removeRepeatedEdges" \notin done
  /\ dedupedLinks' = removeRepeatedEdges(links)
  /\ done' = done \cup {"removeRepeatedEdges"}
  /\ UNCHANGED <<nodes, links, directed, startNode, edgeMap, derivedStart,
                 extraNodes, components>>

NextDedupe == CallRemoveRepeatedEdges

SpecDedupe == InitDedupe /\ [][NextDedupe]_vars

---------------------------------------------------------------------------
(* What the properties are stated with                                     *)

HasEdge(a, b) == \E i \in 1..Len(links) : links[i] = link(a, b)

\* the ids that are a source or a target of some link
Touched ==
  {links[i].source : i \in 1..Len(links)}
    \cup {links[i].target : i \in 1..Len(links)}

Min(S) == CHOOSE x \in S : \A y \in S : x <= y

NoDuplicates(s) == \A i, j \in 1..Len(s) : s[i] = s[j] => i = j

\* the least string of a non-empty set
LexMin(S) == CHOOSE x \in S : \A y \in S : ~strLess(y, x)

\* the neighbours the edge map records for a
Neighbours(a) == IF objHas(edgeMap, a) THEN Range(objGet(edgeMap, a)) ELSE {}

\* the neighbours the links give a
LinkNeighbours(a) ==
  {b \in Touched : HasEdge(a, b) \/ (~directed /\ HasEdge(b, a))}

\* when b is first inserted into the collection of a: link i inserts its
\* target for its source and then, undirected, its source for its target
FirstInsertion(a, b) ==
  Min({2 * i : i \in {k \in 1..Len(links) : links[k] = link(a, b)}}
        \cup {2 * i + 1 :
                i \in {k \in 1..Len(links) : ~directed /\ links[k] = link(b, a)}})

---------------------------------------------------------------------------
(* C4 *)

---------------------------------------------------------------------------
(* C3 *)

NodeIds == {nodes[i].id : i \in 1..Len(nodes)}

\* ids in nodes that are adjacency keys
KeysInNodes == NodeIds \cap Range(edgeMap.keys)

\* the candidates: keys in nodes that no key in nodes has as a neighbour
Candidates ==
  KeysInNodes \ UNION {Range(objGet(edgeMap, k)) : k \in KeysInNodes}

\* C3: for a non-empty node list, deriveStartNode returns the least
\* candidate if there is one; else the least id of all nodes if no id in
\* nodes is an adjacency key; else the least id in nodes that is a key.  The
\* chain A->B, B->C gives A and the cycle A->B, B->A gives A.
C3_DerivedStartNode ==
  ("deriveStartNode" \in done /\ nodes # << >>) =>
    /\ derivedStart =
         IF Candidates # {} THEN LexMin(Candidates)
         ELSE IF KeysInNodes = {} THEN LexMin(NodeIds)
         ELSE LexMin(KeysInNodes)
    /\ ( /\ directed
         /\ links = <<link(strA, strB), link(strB, strC)>>
         /\ NodeIds = {strA, strB, strC} ) => derivedStart = strA
    /\ ( /\ directed
         /\ links = <<link(strA, strB), link(strB, strA)>>
         /\ NodeIds = {strA, strB} ) => derivedStart = strA

\* The chain B->C, A->B with the nodes listed C, B, A.
C3_Witness ==
  /\ "deriveStartNode" \in done
  /\ directed
  /\ links = <<link(strB, strC), link(strA, strB)>>
  /\ nodes = <<node(strC), node(strB), node(strA)>>
  /\ derivedStart = strA

---------------------------------------------------------------------------
(* Components                                                              *)

\* rtn of the call made, each component with its set collected
Run == decomposeRun(nodes, links, startNode)

\* the arrays toAdd of a run: what getDisconnectedComponents returns
Returned(run) == [i \in 1..Len(run) |-> run[i].toAdd]

Decomposed == "getDisconnectedComponents" \in done

\* the ids one edge away from a, the edges read as undirected
Adjacent(a) ==
  {links[i].target : i \in {k \in 1..Len(links) : links[k].source = a}}
    \cup {links[i].source : i \in {k \in 1..Len(links) : links[k].target = a}}

RECURSIVE ReachableFrom(_)
ReachableFrom(S) ==
  LET T == S \cup UNION {Adjacent(a) : a \in S}
  IN  IF T = S THEN S ELSE ReachableFrom(T)

\* when id is first touched: link i touches its source, then its target
FirstTouch(id) ==
  Min({2 * i : i \in {k \in 1..Len(links) : links[k].source = id}}
        \cup {2 * i + 1 : i \in {k \in 1..Len(links) : links[k].target = id}})

\* when a component is discovered: when the first of its ids is touched
Discovered(comp) == Min({FirstTouch(id) : id \in Range(comp.collected)})

\* the node objects of the node list in component i of the result
NodesIn(i) == Range(components[i]) \cap Range(nodes)

---------------------------------------------------------------------------
(* C1 *)

\* C1: for a node list with unique ids, if startNode is not undefined and
\* some component collected it, that component is the first of the returned
\* list and the others follow in the order of their discovery.
C1_StartComponentFirst ==
  (Decomposed /\ UniqueIds(nodes) /\ startNode # undefinedString) =>
    LET run == Run IN
    /\ components = Returned(run)
    /\ (\E k \in 1..Len(run) : setHas(run[k].collected, startNode)) =>
         /\ setHas(run[1].collected, startNode)
         /\ \A i, j \in 2..Len(run) :
              i < j => Discovered(run[i]) < Discovered(run[j])

---------------------------------------------------------------------------
(* C2 *)

\* C2: every element of every returned component is a node object of the
\* node list; an id without one joins its neighbours into one component
\* and has no entry of its own.
C2_OnlyInputNodes ==
  Decomposed =>
    \A i \in 1..Len(components) :
      \A j \in 1..Len(components[i]) : components[i][j] \in Range(nodes)

---------------------------------------------------------------------------
(* C7 *)

---------------------------------------------------------------------------
(* C8 *)

---------------------------------------------------------------------------
(* C10 *)

\* how often node object n occurs in the returned components
Occurrences(n) ==
  Cardinality({p \in UNION {{<<i, j>> : j \in 1..Len(components[i])} :
                              i \in 1..Len(components)} :
                 components[p[1]][p[2]] = n})

---------------------------------------------------------------------------
(* removeRepeatedEdges                                                     *)

\* whether the loop emitted the link at position k
Emitted(k) == dedupeAfter(links, k).rtn # dedupeAfter(links, k - 1).rtn

\* the links at the emitted positions, in input order
RECURSIVE EmittedLinks(_)
EmittedLinks(k) ==
  IF k = 0 THEN << >>
  ELSE IF Emitted(k) THEN Append(EmittedLinks(k - 1), links[k])
  ELSE EmittedLinks(k - 1)

mirror(l) == link(l.target, l.source)

Deduped == "removeRepeatedEdges" \in done

---------------------------------------------------------------------------
(* C5 *)

---------------------------------------------------------------------------
(* C6 *)

\* C6: removeRepeatedEdges applied to its own output returns that output.
C6_DedupeIdempotent ==
  Deduped => removeRepeatedEdges(dedupedLinks) = dedupedLinks

\* B -> A is dropped before a second A -> B that is kept.
C6_Witness ==
  /\ Deduped
  /\ links = <<link(strA, strB), link(strB, strA), link(strA, strB)>>
  /\ dedupedLinks = <<link(strA, strB), link(strA, strB)>>

---------------------------------------------------------------------------
(* C9 *)

\* C9: a link (s,t) is dropped iff a link whose source and target are
\* exactly t and s was emitted earlier in the run; every other link is
\* emitted, in input order.
C9_DroppedIffMirrorEmitted ==
  Deduped =>
    /\ dedupedLinks = EmittedLinks(Len(links))
    /\ \A j \in 1..Len(links) :
         ~Emitted(j) <=>
           \E k \in 1..(j - 1) : Emitted(k) /\ links[k] = mirror(links[j])

===========================================================================
